---- MODULE Spec2Model ----
(***************************************************************************)
(* Model of the authentication request handler `auth` of the broker        *)
(* (src/handlers/auth.rs): parameter validation, binding of the return     *)
(* parameters, origin whitelist, login-hint form, rate limiting, session   *)
(* start, discovery raced against a timer, bridge dispatch and the         *)
(* email-loop fallback.                                                    *)
(*                                                                         *)
(* The synchronous body of `auth` (lines 66-228) is one action, Auth.  The *)
(* future it returns is then driven by the event loop: one action per      *)
(* completion the loop can deliver (discovery, OIDC bridge, timer, email   *)
(* bridge).  Requests are observed one at a time: the next request is      *)
(* taken once the previous one has produced its result and the task it     *)
(* may have detached has run to completion.                                *)
(***************************************************************************)
EXTENDS Integers, Sequences, FiniteSets, TLC

(***************************************************************************)
(* Bounds of the model.                                                    *)
(***************************************************************************)
\* Number of attempts the limiter allows per address (ctx.app.limit_per_email).
LimitPerEmail == 1
\* Longest link sequence a discovery query answers with.
MaxLinks == 2

\* Number of attempts, over all addresses, that reach the limiter.
MaxAttempts == 2

(***************************************************************************)
(* Values.                                                                 *)
(***************************************************************************)
ParamNames ==
    {"redirect_uri", "client_id", "response_mode", "response_errors",
     "state", "nonce", "response_type", "login_hint"}

\* A URL as written in a request: a relative reference has no scheme.
RawUrl(scheme, host, port, path) ==
    [scheme |-> scheme, host |-> host, port |-> port, path |-> path]

\* An origin as written in a request (client_id) or in the configuration.
RawOrigin(scheme, host, port) ==
    [scheme |-> scheme, host |-> host, port |-> port]

RedirectUris ==
    {RawUrl("", "", "", "/cb"),
     RawUrl("https", "rp.example", "443", "/cb"),
     RawUrl("https", "other.example", "", "/cb")}

ClientIds ==
    {RawOrigin("https", "rp.example", ""),
     RawOrigin("https", "other.example", "")}

ResponseModes == {"form_post", "query"}
ResponseErrors == {"false", "maybe"}
States == {"s1"}
Nonces == {"n1"}
ResponseTypes == {"id_token", "code"}
LoginHints == {"", "not-an-email", "A@X.test", "b@y.test"}

\* Normalized addresses.
Emails == {"a@x.test", "b@y.test"}

\* The configured allow-list: <<>> is None, <<S>> is Some(S).
AllowedOriginsConfigs == {<<>>, <<{RawOrigin("https", "rp.example", "")}>>}

Relations == {"OidcIssuer", "Portier", "Google", "Other"}
Hrefs == {"h1"}
Link == [rel : Relations, href : Hrefs]

RECURSIVE SeqsUpTo(_, _)
SeqsUpTo(S, n) ==
    IF n = 0 THEN {<<>>}
    ELSE LET shorter == SeqsUpTo(S, n - 1)
         IN  shorter \cup {Append(s, x) : s \in {t \in shorter : Len(t) = n - 1}, x \in S}

LinkSeqs == SeqsUpTo(Link, MaxLinks)

\* BrokerError kinds; Internal stands for the unclassified kinds.
ErrKinds == {"Input", "Provider", "ProviderCancelled", "RateLimited", "Internal"}

NoParams == [k \in {} |-> <<>>]

\* A handler result: a response or a BrokerError.
Ok(body) == [tag |-> "ok", kind |-> "Response", msg |-> <<body>>, params |-> NoParams]
Err(kind, msg) == [tag |-> "err", kind |-> kind, msg |-> msg, params |-> NoParams]
NoResult == [tag |-> "none", kind |-> "", msg |-> <<>>, params |-> NoParams]

\* The errors the external collaborators answer with.
SourceErrs(src) == {Err(k, <<src>>) : k \in ErrKinds}

None == [set |-> FALSE]

\* Variant of ReturnParams: the slot of the context is left as it was.
ReturnParams_unset(redirect_uri, response_mode, response_errors, state) == None

\* Lines 107-108: the value ctx.return_params is set to.
ReturnParams(redirect_uri, response_mode, response_errors, state) ==
    [set |-> TRUE, redirect_uri |-> redirect_uri, response_mode |-> response_mode,
     response_errors |-> response_errors, state |-> state]

NoSession == [started |-> FALSE]

(***************************************************************************)
(* Requests: a parameter map holds the parameters that were sent.          *)
(***************************************************************************)
Opt(S) == {<<>>} \cup {<<v>> : v \in S}

Params(r) == [k \in {n \in ParamNames : r[n] # <<>>} |-> r[k][1]]

Requests ==
    {Params(r) : r \in
        [redirect_uri : Opt(RedirectUris), client_id : Opt(ClientIds),
         response_mode : Opt(ResponseModes), response_errors : Opt(ResponseErrors),
         state : Opt(States), nonce : Opt(Nonces),
         response_type : Opt(ResponseTypes), login_hint : Opt(LoginHints)]}

(***************************************************************************)
(* Collaborators of the handler that live outside handlers/auth.rs.        *)
(***************************************************************************)
\* try_get_input_param!(params, key): the value, or an early return with an
\* Input error naming the parameter.
MissingParam(key) == Err("Input", <<"missing request parameter", key>>)

try_get_input_param(params, key) ==
    IF key \in DOMAIN params
    THEN [ok |-> TRUE, value |-> params[key]]
    ELSE [ok |-> FALSE, err |-> MissingParam(key)]

\* try_get_input_param!(params, key, default).
try_get_input_param_or(params, key, default) ==
    IF key \in DOMAIN params THEN params[key] ELSE default

DefaultPort(scheme) ==
    IF scheme = "https" THEN "443" ELSE IF scheme = "http" THEN "80" ELSE ""

\* validation::parse_redirect_uri: an absolute URL, or an error.  Parsing
\* drops a port that is the default of the scheme.
parse_redirect_uri(input, param) ==
    IF input.scheme = ""
    THEN [ok |-> FALSE, err |-> Err("Input", <<param, "must be an absolute URL">>)]
    ELSE [ok |-> TRUE,
          url |-> [scheme |-> input.scheme, host |-> input.host,
                   port |-> IF input.port = DefaultPort(input.scheme) THEN "" ELSE input.port,
                   path |-> input.path]]

\* Url::origin().ascii_serialization(): scheme, host and non-default port.
origin_ascii_serialization(url) ==
    [scheme |-> url.scheme, host |-> url.host, port |-> url.port]

\* login_hint.parse::<EmailAddress>(): the normalized address, or an error.
parse_email(login_hint) ==
    IF login_hint = "A@X.test" THEN [ok |-> TRUE, addr |-> "a@x.test"]
    ELSE IF login_hint = "b@y.test" THEN [ok |-> TRUE, addr |-> "b@y.test"]
    ELSE [ok |-> FALSE]

\* store_limits::addr_limiter(store, addr, limit): counts the attempt and
\* answers whether the address is still within its limit; `fault` is the
\* store's failure, if it fails.
addr_limiter(counts, addr, limit, fault) ==
    IF fault # NoResult
    THEN [ok |-> FALSE, err |-> fault, allowed |-> FALSE, addr |-> addr,
          counts |-> counts]
    ELSE LET n == counts[addr] + 1
         IN  [ok |-> TRUE, err |-> NoResult, allowed |-> n <= limit, addr |-> addr,
              counts |-> [counts EXCEPT ![addr] = n]]

(***************************************************************************)
(* Pieces of `auth`.                                                       *)
(***************************************************************************)
\* from_value(Value::String(response_mode)), lines 93-97.
parse_response_mode(s) ==
    IF s = "fragment" THEN [ok |-> TRUE, value |-> "Fragment"]
    ELSE IF s = "form_post" THEN [ok |-> TRUE, value |-> "FormPost"]
    ELSE [ok |-> FALSE]

\* response_errors.parse::<bool>(), lines 99-103.
parse_bool(s) ==
    IF s = "true" THEN [ok |-> TRUE, value |-> TRUE]
    ELSE IF s = "false" THEN [ok |-> TRUE, value |-> FALSE]
    ELSE [ok |-> FALSE]

\* Variant of ClientIdIsOrigin: scheme and host are compared, the port is not.
ClientIdIsOrigin_any_port(client_id, redirect_uri) ==
    /\ client_id.scheme = redirect_uri.scheme
    /\ client_id.host = redirect_uri.host

\* Line 86: client_id must be the origin of redirect_uri.
ClientIdIsOrigin(client_id, redirect_uri) ==
    client_id = origin_ascii_serialization(redirect_uri)

\* Variant of OriginAllowed: the allow-list is not consulted.
OriginAllowed_unchecked(allowed_origins, client_id) == TRUE

\* Lines 110-115: the whitelist check passes.
OriginAllowed(allowed_origins, client_id) ==
    allowed_origins = <<>> \/ client_id \in allowed_origins[1]

\* Variant of get_nonce: nonce is read with a default, like state.
get_nonce_optional(params) ==
    [ok |-> TRUE, value |-> try_get_input_param_or(params, "nonce", "")]

\* Line 117: nonce is a required parameter.
get_nonce(params) == try_get_input_param(params, "nonce")

\* Variant of NoLoginHint: an empty login hint is taken for an address.
NoLoginHint_never(login_hint) == FALSE

\* Line 124: no login hint was given.
NoLoginHint(login_hint) == login_hint = ""

\* Lines 145-148: the login form, with the original parameters embedded.
FormResponse(original_params) ==
    [tag |-> "ok", kind |-> "Response", msg |-> <<"login_hint form">>,
     params |-> original_params]

\* Variant of LimiterVerdict: a failure of the store counts as a rejection.
LimiterVerdict_error_as_reject(r) ==
    IF r.ok /\ r.allowed THEN "allowed" ELSE "rejected"

\* Variant of LimiterVerdict: the Ok(false) arm is missing.
LimiterVerdict_no_reject(r) == IF ~r.ok THEN "error" ELSE "allowed"

\* Lines 160-164: what the handler makes of the limiter's answer.
LimiterVerdict(r) ==
    IF ~r.ok THEN "error"
    ELSE IF ~r.allowed THEN "rejected"
    ELSE "allowed"

\* Line 167: ctx.start_session(&client_id, &login_hint, &email_addr, &nonce).
start_session(client_id, login_hint, email_addr, nonce) ==
    [started |-> TRUE, client_id |-> client_id, login_hint |-> login_hint,
     email |-> email_addr, nonce |-> nonce]

\* Variant of SessionWhen: the session is started before the limiter is asked.
SessionWhen_always(verdict, session) == session

\* Lines 160-167: start_session is reached only past the limiter's early
\* returns; the session of the context after the limiter stage.
SessionWhen(verdict, session) ==
    IF verdict = "allowed" THEN session ELSE NoSession

\* Lines 200-201.
TimedOut(email_addr) == Err("Provider", <<"discovery timed out for", email_addr>>)

\* What the synchronous body did: the stage it returned from, the result it
\* returned (NoResult when it returned the pending future), and its effects.
Outcome(stage, rp, result, answer, email, counts, session) ==
    [stage |-> stage, return_params |-> rp, result |-> result, answer |-> answer,
     email |-> email, counts |-> counts, session |-> session]

\* Lines 66-228 of `auth` up to the point where it returns: either an early
\* return with a result, or the pending future of the discovery race
\* (stage "race"), or the panic of line 191 (stage "panic").
AuthBody(params, allowed_origins, counts, fault, timer_ok) ==
    LET early(stage, rp, result) ==
            Outcome(stage, rp, result, <<>>, "", counts, NoSession)
        p_redirect_uri == try_get_input_param(params, "redirect_uri")
        p_client_id == try_get_input_param(params, "client_id")
        response_mode_s == try_get_input_param_or(params, "response_mode", "fragment")
        response_errors_s == try_get_input_param_or(params, "response_errors", "true")
        state == try_get_input_param_or(params, "state", "")
    IN
    IF ~p_redirect_uri.ok THEN early("redirect_uri", None, p_redirect_uri.err)
    ELSE IF ~p_client_id.ok THEN early("client_id", None, p_client_id.err)
    ELSE
    LET client_id == p_client_id.value
        parsed == parse_redirect_uri(p_redirect_uri.value, "redirect_uri")
        response_mode == parse_response_mode(response_mode_s)
        response_errors == parse_bool(response_errors_s)
    IN
    IF ~parsed.ok THEN early("parse_redirect_uri", None, parsed.err)
    ELSE IF ~ClientIdIsOrigin(client_id, parsed.url)
    THEN early("origin", None,
               Err("Input", <<"the client_id must be the origin of the redirect_uri">>))
    ELSE IF ~response_mode.ok
    THEN early("response_mode", None,
               Err("Input", <<"unsupported response_mode, must be fragment or form_post">>))
    ELSE IF ~response_errors.ok
    THEN early("response_errors", None,
               Err("Input", <<"response_errors must be true or false">>))
    ELSE
    LET rp == ReturnParams(parsed.url, response_mode.value, response_errors.value, state)
        p_nonce == get_nonce(params)
        p_response_type == try_get_input_param(params, "response_type")
        login_hint == try_get_input_param_or(params, "login_hint", "")
        email_addr == parse_email(login_hint)
    IN
    IF ~OriginAllowed(allowed_origins, client_id)
    THEN early("whitelist", rp, Err("Input", <<"the origin is not whitelisted">>))
    ELSE IF ~p_nonce.ok THEN early("nonce", rp, p_nonce.err)
    ELSE IF ~p_response_type.ok THEN early("response_type", rp, p_response_type.err)
    ELSE IF p_response_type.value # "id_token"
    THEN early("response_type", rp,
               Err("Input", <<"unsupported response_type, only id_token is supported">>))
    ELSE IF NoLoginHint(login_hint) THEN early("form", rp, FormResponse(params))
    ELSE IF ~email_addr.ok
    THEN early("email", rp, Err("Input", <<"login_hint is not a valid email address">>))
    ELSE
    LET limited == addr_limiter(counts, email_addr.addr, LimitPerEmail, fault)
        verdict == LimiterVerdict(limited)
        session == start_session(client_id, login_hint, email_addr.addr, p_nonce.value)
    IN
    IF verdict = "error"
    THEN Outcome("limiter", rp, limited.err, <<limited>>, email_addr.addr,
                 limited.counts, SessionWhen(verdict, session))
    ELSE IF verdict = "rejected"
    THEN Outcome("limiter", rp, Err("RateLimited", <<>>), <<limited>>, email_addr.addr,
                 limited.counts, SessionWhen(verdict, session))
    ELSE Outcome(IF timer_ok THEN "race" ELSE "panic", rp, NoResult, <<limited>>,
                 email_addr.addr, limited.counts, SessionWhen(verdict, session))

(***************************************************************************)
(* The future `auth` returns.                                              *)
(***************************************************************************)
\* Lines 179-181: the relations the OIDC bridge serves.
OidcRelations == {"OidcIssuer", "Portier", "Google"}

\* Variant of Dispatch: the last link is inspected instead of the first.
Dispatch_last(links) ==
    IF links # <<>> /\ links[Len(links)].rel \in OidcRelations
    THEN <<links[Len(links)]>>
    ELSE <<>>

\* Variant of Dispatch: the first link the OIDC bridge serves is taken,
\* wherever it stands in the sequence.
Dispatch_first_usable(links) ==
    LET usable == SelectSeq(links, LAMBDA l : l.rel \in OidcRelations)
    IN  IF usable # <<>> THEN <<usable[1]>> ELSE <<>>

\* Lines 177-184: the link the dispatch step hands to the OIDC bridge, as a
\* sequence: <<link>>, or <<>> when it yields ProviderCancelled instead.
Dispatch(links) ==
    IF links # <<>> /\ links[1].rel \in OidcRelations THEN <<links[1]>> ELSE <<>>

\* Variant of IsFallbackError: every error is retried with the email loop.
IsFallbackError_any(e) == e.kind \in ErrKinds

\* Variant of IsFallbackError: a failed provider is not retried, only an
\* unusable discovery answer is.
IsFallbackError_cancelled_only(e) == e.kind = "ProviderCancelled"

\* Lines 220-225: the errors the fallback step retries with the email loop.
IsFallbackError(e) == e.kind \in {"Provider", "ProviderCancelled"}

(***************************************************************************)
(* State.                                                                  *)
(***************************************************************************)
VARIABLES
    allowed_origins,  \* ctx.app.allowed_origins: <<>> or <<set of origins>>
    counts,           \* the limiter's store: attempts counted per address
    pc,               \* "idle", "race" (line 190-214 pending), "email" (the
                      \* fallback's bridge call pending), "done", "panic"
    req,              \* the parameters of the request
    return_params,    \* ctx.return_params
    session,          \* the session of ctx.start_session
    email_addr,       \* the normalized address the closures share
    limiter_answer,   \* <<>>, or <<r>>: what addr_limiter answered
    result,           \* what the future of `auth` resolved to
    chain,            \* the future f of lines 170-185: "none", "discovery"
                      \* (webfinger::query pending), "oidc" (the bridge call
                      \* chained to it pending), "finished"
    detached,         \* f was spawned on the event loop (line 198)
    disc_result,      \* <<>>, or <<r>>: what webfinger::query resolved to
    oidc_args,        \* the links bridges::oidc::auth was called with, in order
    oidc_result,      \* <<>>, or <<r>>: what bridges::oidc::auth resolved to
    email_args,       \* the addresses bridges::email::auth was called with
    email_result,     \* <<>>, or <<r>>: what bridges::email::auth resolved to
    race_result,      \* <<>>, or <<r>>: what the race step (193-214) yielded
    log,              \* the errors logged with e.log(), in order
    trace             \* the operations of the request, in order

vars ==
    <<allowed_origins, counts, pc, req, return_params, session, email_addr,
      limiter_answer, result, chain, detached, disc_result, oidc_args, oidc_result, email_args,
      email_result, race_result, log, trace>>

Init ==
    /\ allowed_origins \in AllowedOriginsConfigs
    /\ counts = [e \in Emails |-> 0]
    /\ pc = "idle"
    /\ req = NoParams
    /\ return_params = None
    /\ session = NoSession
    /\ email_addr = ""
    /\ limiter_answer = <<>>
    /\ result = NoResult
    /\ chain = "none"
    /\ detached = FALSE
    /\ disc_result = <<>>
    /\ oidc_args = <<>>
    /\ oidc_result = <<>>
    /\ email_args = <<>>
    /\ email_result = <<>>
    /\ race_result = <<>>
    /\ log = <<>>
    /\ trace = <<>>

\* The stages of the synchronous body, in the order of the code.
BodyStages ==
    <<"redirect_uri", "client_id", "parse_redirect_uri", "origin", "response_mode",
      "response_errors", "whitelist", "nonce", "response_type", "form", "email",
      "limiter", "race">>

\* The position of each stage in that order; the panic of line 191 comes at
\* the point where the race is set up.
StageRank ==
    [x \in {BodyStages[i] : i \in DOMAIN BodyStages} \cup {"panic"} |->
        CHOOSE i \in DOMAIN BodyStages :
            BodyStages[i] = (IF x = "panic" THEN "race" ELSE x)]

\* The body got as far as stage s: it returned from s or from a later stage.
Reached(o, s) == StageRank[o.stage] >= StageRank[s]

\* Variant of BodyTrace: the whitelist is checked before the return
\* parameters are bound.
BodyTrace_whitelist_first(o) ==
    (IF o.return_params.set THEN <<"whitelist", "bind">> ELSE <<>>)
    \o (IF Reached(o, "nonce") THEN <<"nonce">> ELSE <<>>)
    \o (IF Reached(o, "response_type") THEN <<"response_type">> ELSE <<>>)
    \o (IF Reached(o, "form") THEN <<"login_hint">> ELSE <<>>)
    \o (IF Reached(o, "email") THEN <<"parse_email">> ELSE <<>>)
    \o (IF o.answer # <<>> THEN <<"limiter">> ELSE <<>>)
    \o (IF o.session.started THEN <<"session", "discovery">> ELSE <<>>)
    \o (IF o.stage = "race" THEN <<"timer">> ELSE <<>>)

\* The operations the synchronous body performed, by the stage it reached:
\* binding (108), whitelist (110), nonce (117), response_type (118),
\* login_hint (123), email parsing (153), limiter (160), session (167),
\* discovery query (170), timer (190).
BodyTrace(o) ==
    (IF o.return_params.set THEN <<"bind", "whitelist">> ELSE <<>>)
    \o (IF Reached(o, "nonce") THEN <<"nonce">> ELSE <<>>)
    \o (IF Reached(o, "response_type") THEN <<"response_type">> ELSE <<>>)
    \o (IF Reached(o, "form") THEN <<"login_hint">> ELSE <<>>)
    \o (IF Reached(o, "email") THEN <<"parse_email">> ELSE <<>>)
    \o (IF o.answer # <<>> THEN <<"limiter">> ELSE <<>>)
    \o (IF o.session.started THEN <<"session", "discovery">> ELSE <<>>)
    \o (IF o.stage = "race" THEN <<"timer">> ELSE <<>>)

RECURSIVE SumOver(_, _)
SumOver(f, S) ==
    IF S = {} THEN 0
    ELSE LET x == CHOOSE y \in S : TRUE IN f[x] + SumOver(f, S \ {x})

\* The attempts the limiter has counted.
Attempts(c) == SumOver(c, Emails)

\* A request arrives and `auth` runs up to its return (lines 66-228).
Auth(params, fault, timer_ok) ==
    /\ pc = "idle"
    /\ LET o == AuthBody(params, allowed_origins, counts, fault, timer_ok)
       IN  /\ Attempts(o.counts) <= MaxAttempts
           /\ req' = params
           /\ return_params' = o.return_params
           /\ counts' = o.counts
           /\ session' = o.session
           /\ email_addr' = o.email
           /\ limiter_answer' = o.answer
           /\ result' = o.result
           /\ pc' = IF o.stage \in {"race", "panic"} THEN o.stage ELSE "done"
           /\ chain' = IF o.session.started THEN "discovery" ELSE "none"
           /\ trace' = BodyTrace(o)
    /\ UNCHANGED <<allowed_origins, detached, disc_result, oidc_args, oidc_result,
                   email_args, email_result, race_result, log>>

\* Variant of Fallback: the error is not logged before it is handled.
Fallback_unlogged(e, tr) ==
    /\ log' = log
    /\ IF IsFallbackError(e)
       THEN /\ email_args' = Append(email_args, email_addr)
            /\ pc' = "email"
            /\ result' = result
            /\ trace' = tr \o <<"email">>
       ELSE /\ email_args' = email_args
            /\ pc' = "done"
            /\ result' = e
            /\ trace' = tr \o <<"propagate">>

\* Lines 218-226: the fallback step receives error e.
Fallback(e, tr) ==
    /\ log' = Append(log, [err |-> e, by |-> "fallback"])
    /\ IF IsFallbackError(e)
       THEN /\ email_args' = Append(email_args, email_addr)
            /\ pc' = "email"
            /\ result' = result
            /\ trace' = tr \o <<"log", "email">>
       ELSE /\ email_args' = email_args
            /\ pc' = "done"
            /\ result' = e
            /\ trace' = tr \o <<"log", "propagate">>

\* The future f of lines 170-185 resolves to r.  When it still takes part in
\* the race it decides it (lines 207-212) and an error goes on to the
\* fallback step; when it was spawned, an error is logged and that is all
\* (line 199).
ChainYields(r, tr) ==
    /\ chain' = "finished"
    /\ IF detached
       THEN /\ log' = IF r.tag = "err"
                      THEN Append(log, [err |-> r, by |-> "detached"])
                      ELSE log
            /\ trace' = IF r.tag = "err" THEN tr \o <<"log_detached">> ELSE tr
            /\ UNCHANGED <<pc, result, email_args, race_result>>
       ELSE /\ race_result' = <<r>>
            /\ IF r.tag = "err"
               THEN Fallback(r, tr)
               ELSE /\ result' = r
                    /\ pc' = "done"
                    /\ trace' = tr
                    /\ UNCHANGED <<log, email_args>>

\* webfinger::query resolves with a link sequence; the closure of lines
\* 176-185 dispatches on its first entry.
DiscoveryOk(links) ==
    /\ chain = "discovery"
    /\ pc # "panic"
    /\ disc_result' = <<[tag |-> "ok", links |-> links]>>
    /\ LET link == Dispatch(links)
       IN  IF link # <<>>
           THEN /\ oidc_args' = oidc_args \o link
                /\ chain' = "oidc"
                /\ trace' = trace \o <<"discovered", "oidc">>
                /\ UNCHANGED <<pc, result, email_args, race_result, log>>
           ELSE /\ oidc_args' = oidc_args
                /\ ChainYields(Err("ProviderCancelled", <<>>), Append(trace, "discovered"))
    /\ UNCHANGED <<allowed_origins, counts, req, return_params, session, email_addr,
                   limiter_answer, detached, oidc_result, email_result>>

\* webfinger::query resolves with an error.
DiscoveryErr(e) ==
    /\ chain = "discovery"
    /\ pc # "panic"
    /\ disc_result' = <<[tag |-> "err", err |-> e]>>
    /\ ChainYields(e, Append(trace, "discovered"))
    /\ UNCHANGED <<allowed_origins, counts, req, return_params, session, email_addr,
                   limiter_answer, detached, oidc_args, oidc_result, email_result>>

\* Variant of OidcResolves: when the bridge fails, the next link the bridge
\* serves is tried before the error is passed on.
OidcResolves_retry(r) ==
    /\ chain = "oidc"
    /\ pc # "panic"
    /\ oidc_result' = <<r>>
    /\ LET usable == SelectSeq(disc_result[1].links, LAMBDA l : l.rel \in OidcRelations)
       IN  IF r.tag = "err" /\ Len(oidc_args) < Len(usable)
           THEN /\ oidc_args' = Append(oidc_args, usable[Len(oidc_args) + 1])
                /\ trace' = Append(trace, "oidc")
                /\ UNCHANGED <<chain, pc, result, email_args, race_result, log>>
           ELSE /\ oidc_args' = oidc_args
                /\ ChainYields(r, trace)
    /\ UNCHANGED <<allowed_origins, counts, req, return_params, session, email_addr,
                   limiter_answer, detached, disc_result, email_result>>

\* bridges::oidc::auth resolves (with a response or an error).
OidcResolves(r) ==
    /\ chain = "oidc"
    /\ pc # "panic"
    /\ oidc_result' = <<r>>
    /\ ChainYields(r, trace)
    /\ UNCHANGED <<allowed_origins, counts, req, return_params, session, email_addr,
                   limiter_answer, detached, disc_result, oidc_args, email_result>>

\* Variant of TimerFires: the losing future is dropped, not spawned.
TimerFires_drop ==
    /\ pc = "race"
    /\ detached' = TRUE
    /\ chain' = "none"
    /\ race_result' = <<TimedOut(email_addr)>>
    /\ Fallback(TimedOut(email_addr), trace)
    /\ UNCHANGED <<allowed_origins, counts, req, return_params, session, email_addr,
                   limiter_answer, disc_result, oidc_args, oidc_result, email_result>>

\* Variant of TimerFires: the timer is looked at only once the future f has
\* finished (a join instead of a race).
TimerFires_after_discovery ==
    /\ pc = "race"
    /\ chain = "finished"
    /\ detached' = TRUE
    /\ race_result' = <<TimedOut(email_addr)>>
    /\ Fallback(TimedOut(email_addr), Append(trace, "spawn"))
    /\ UNCHANGED <<allowed_origins, counts, req, return_params, session, email_addr,
                   limiter_answer, chain, disc_result, oidc_args, oidc_result, email_result>>

\* Lines 196-202: the timer resolves first.  f is spawned and the race step
\* yields the timeout error, which goes on to the fallback step.
TimerFires ==
    /\ pc = "race"
    /\ detached' = TRUE
    /\ race_result' = <<TimedOut(email_addr)>>
    /\ Fallback(TimedOut(email_addr), Append(trace, "spawn"))
    /\ UNCHANGED <<allowed_origins, counts, req, return_params, session, email_addr,
                   limiter_answer, chain, disc_result, oidc_args, oidc_result, email_result>>

\* Lines 203-205: the timer resolves with an error.
TimerError ==
    /\ pc = "race"
    /\ pc' = "panic"
    /\ UNCHANGED <<allowed_origins, counts, req, return_params, session, email_addr,
                   limiter_answer, result, chain, detached, disc_result, oidc_args, oidc_result,
                   email_args, email_result, race_result, log, trace>>

\* Variant of EmailResolves: the return parameters are taken out of the
\* context when the bridge answers.
EmailResolves_takes_return_params(r) ==
    /\ pc = "email"
    /\ email_result' = <<r>>
    /\ result' = r
    /\ pc' = "done"
    /\ return_params' = None
    /\ UNCHANGED <<allowed_origins, counts, req, session, email_addr,
                   limiter_answer, chain, detached, disc_result, oidc_args, oidc_result, email_args,
                   race_result, log, trace>>

\* bridges::email::auth resolves; its result is the result of the request.
EmailResolves(r) ==
    /\ pc = "email"
    /\ email_result' = <<r>>
    /\ result' = r
    /\ pc' = "done"
    /\ UNCHANGED <<allowed_origins, counts, req, return_params, session, email_addr,
                   limiter_answer, chain, detached, disc_result, oidc_args, oidc_result, email_args,
                   race_result, log, trace>>

\* The request is over: its result was delivered and the task it may have
\* spawned has finished; the request context is dropped.
Finish ==
    /\ pc = "done"
    /\ detached => chain = "finished"
    /\ pc' = "idle"
    /\ req' = NoParams
    /\ return_params' = None
    /\ session' = NoSession
    /\ email_addr' = ""
    /\ limiter_answer' = <<>>
    /\ result' = NoResult
    /\ chain' = "none"
    /\ detached' = FALSE
    /\ disc_result' = <<>>
    /\ oidc_args' = <<>>
    /\ oidc_result' = <<>>
    /\ email_args' = <<>>
    /\ email_result' = <<>>
    /\ race_result' = <<>>
    /\ log' = <<>>
    /\ trace' = <<>>
    /\ UNCHANGED <<allowed_origins, counts>>

OidcResults ==
    {Ok("oidc"), Err("Provider", <<"oidc">>), Err("Input", <<"oidc">>),
     Err("Internal", <<"oidc">>)}
EmailResults == {Ok("email"), Err("Provider", <<"email">>)}
StoreFaults == {NoResult} \cup SourceErrs("store")

\* The router hands a request to `auth`.  Whether the store fails and whether
\* the timer can be created are choices of the environment that show only
\* in a request that gets as far as the limiter.
Request ==
    /\ pc = "idle"
    /\ \E params \in Requests :
          IF AuthBody(params, allowed_origins, counts, NoResult, TRUE).answer = <<>>
          THEN Auth(params, NoResult, TRUE)
          ELSE \E fault \in StoreFaults, timer_ok \in BOOLEAN :
                   Auth(params, fault, timer_ok)

Next ==
    \/ Request
    \/ \E links \in LinkSeqs : DiscoveryOk(links)
    \/ \E e \in SourceErrs("webfinger") : DiscoveryErr(e)
    \/ \E r \in OidcResults : OidcResolves(r)
    \/ TimerFires
    \/ TimerError
    \/ \E r \in EmailResults : EmailResolves(r)
    \/ Finish

Spec == Init /\ [][Next]_vars

\* The event loop runs every task it holds: the query, the bridge call
\* chained to it and the email bridge call all come to an answer.
SpecFair ==
    /\ Spec
    /\ WF_vars(\E links \in LinkSeqs : DiscoveryOk(links))
    /\ WF_vars(\E e \in SourceErrs("webfinger") : DiscoveryErr(e))
    /\ WF_vars(\E r \in OidcResults : OidcResolves(r))
    /\ WF_vars(\E r \in EmailResults : EmailResolves(r))

\* The timer comes to fire and the email bridge call comes to an answer;
\* the query and the OIDC bridge call may stay pending for ever.
SpecTimerFair ==
    /\ Spec
    /\ WF_vars(TimerFires)
    /\ WF_vars(\E r \in EmailResults : EmailResolves(r))

(***************************************************************************)
(* Observations used by the properties.                                    *)
(***************************************************************************)
Count(ev) == Cardinality({i \in DOMAIN trace : trace[i] = ev})

\* Event a occurs in the trace, and before any occurrence of b.
Before(a, b) ==
    \E i \in DOMAIN trace :
        /\ trace[i] = a
        /\ \A j \in DOMAIN trace : trace[j] = b => i < j

\* A request is being served or has been answered.
InRequest == pc # "idle"

\* The errors that reached the fallback step, in order.
FallbackErrors == SelectSeq(log, LAMBDA l : l.by = "fallback")

\* Discovery answered with links while it still took part in the race.
DiscoveredInTime ==
    /\ disc_result # <<>>
    /\ Before("discovered", "spawn")

DiscoveredLinks == disc_result # <<>> /\ disc_result[1].tag = "ok"

\* The first link is one the OIDC bridge serves.
FirstLinkUsable ==
    /\ DiscoveredLinks
    /\ disc_result[1].links # <<>>
    /\ disc_result[1].links[1].rel \in {"OidcIssuer", "Portier", "Google"}

\* No limiter call, session, discovery query or bridge call in this request.
NoLimiterCall == limiter_answer = <<>> /\ Count("limiter") = 0
NoSessionStarted == ~session.started /\ Count("session") = 0
NoDiscovery == chain = "none" /\ disc_result = <<>> /\ Count("discovery") = 0
NoBridgeCall ==
    /\ oidc_args = <<>> /\ oidc_result = <<>>
    /\ email_args = <<>> /\ email_result = <<>>

\* The result of the request is the email bridge's answer.
EmailResultIsFinal == pc = "done" => (email_result # <<>> /\ result = email_result[1])

(***************************************************************************)
(* Properties.                                                             *)
(***************************************************************************)

\* C1: the fallback step invokes the email-loop bridge if and only if the
\* error that reached it is Provider or ProviderCancelled; an error of any
\* other kind is returned unchanged as the final result, and the email-loop
\* bridge is not invoked in that request.
C1_FallbackOnlyForProviderErrors ==
    InRequest =>
        /\ (email_args # <<>>) <=>
               (\E i \in DOMAIN FallbackErrors :
                    FallbackErrors[i].err.kind \in {"Provider", "ProviderCancelled"})
        /\ \A i \in DOMAIN FallbackErrors :
               LET e == FallbackErrors[i].err
               IN  e.kind \notin {"Provider", "ProviderCancelled"} =>
                       /\ pc = "done"
                       /\ result = e
                       /\ email_args = <<>> /\ email_result = <<>>

\* A RateLimited error of the discovery query reached the fallback step and
\* was returned as it was.
C1_Witness ==
    /\ FallbackErrors = <<[err |-> Err("RateLimited", <<"webfinger">>), by |-> "fallback"]>>
    /\ pc = "done"
    /\ result = Err("RateLimited", <<"webfinger">>)
    /\ email_args = <<>>

\* The limiter answered this request, and the attempt it counted for the
\* address is beyond the limit.
AttemptBeyondLimit ==
    /\ limiter_answer # <<>>
    /\ limiter_answer[1].ok
    /\ counts[email_addr] > LimitPerEmail

\* C2: with a limiter that rejects after LimitPerEmail attempts for an
\* address, a further attempt for that address ends with RateLimited, and in
\* that request no session is started, no discovery query is issued and no
\* bridge is invoked.
C2_RateLimitedStopsRequest ==
    (InRequest /\ AttemptBeyondLimit) =>
        /\ pc = "done"
        /\ result = Err("RateLimited", <<>>)
        /\ NoSessionStarted
        /\ NoDiscovery
        /\ NoBridgeCall

\* The attempt after the last allowed one for a@x.test was rejected, while
\* b@y.test has not been tried.
C2_Witness ==
    /\ email_addr = "a@x.test"
    /\ AttemptBeyondLimit
    /\ counts["a@x.test"] = LimitPerEmail + 1
    /\ counts["b@y.test"] = 0
    /\ result = Err("RateLimited", <<>>)

\* Discovery answered, before the timer fired, with a first link that the
\* OIDC bridge serves.
UsableLinkInTime == InRequest /\ DiscoveredInTime /\ FirstLinkUsable

\* C3 as stated: the OIDC bridge is invoked with exactly the first link, its
\* result (success or error) is the final result, and the timer cannot fire
\* once the bridge stage has begun.
C3_BridgeResultAlwaysFinal ==
    UsableLinkInTime =>
        /\ oidc_args = <<disc_result[1].links[1]>>
        /\ ~detached
        /\ pc = "done" => (oidc_result # <<>> /\ result = oidc_result[1])

\* C3, amended: the OIDC bridge is invoked once, with exactly the first
\* link.  The timer races the query together with the bridge call chained to
\* it.  When the bridge answers before the timer fires, a response or an
\* error other than Provider and ProviderCancelled is the final result; when
\* it answers with Provider or ProviderCancelled, or the timer fires while
\* the bridge call is pending, the email-loop bridge's result is final.
C3_OidcBridgeGetsFirstLink ==
    UsableLinkInTime =>
        /\ oidc_args = <<disc_result[1].links[1]>>
        /\ (pc = "done" /\ ~detached) => oidc_result # <<>>
        /\ pc = "done" =>
               IF /\ ~detached
                  /\ oidc_result # <<>>
                  /\ oidc_result[1].kind \notin {"Provider", "ProviderCancelled"}
               THEN result = oidc_result[1] /\ email_args = <<>>
               ELSE email_result # <<>> /\ result = email_result[1]

\* The first of two different links went to the OIDC bridge, and the
\* bridge's response is the result.
C3_Witness ==
    /\ UsableLinkInTime
    /\ Len(disc_result[1].links) = 2
    /\ disc_result[1].links[2] # disc_result[1].links[1]
    /\ ~detached
    /\ pc = "done"
    /\ result = Ok("oidc")

\* C4: when the timer fires first, the race step yields
\* Provider("discovery timed out for <email>") at once, whatever the pending
\* future is waiting for; that future is kept and runs on, it resolves
\* eventually, and its steps change neither the state nor the result of the
\* request, which is the email-loop bridge's.
C4_TimeoutDetachesDiscovery ==
    /\ [](detached =>
            /\ race_result = <<Err("Provider", <<"discovery timed out for", session.email>>)>>
            /\ pc \in {"email", "done"}
            /\ EmailResultIsFinal)
    /\ [][(~detached /\ detached') =>
            /\ chain \in {"discovery", "oidc"}
            /\ chain' = chain
            /\ race_result' = <<Err("Provider", <<"discovery timed out for", session.email>>)>>
            /\ pc' = "email"]_vars
    /\ [][(detached /\ detached' /\ chain' # chain) =>
            /\ result' = result
            /\ pc' = pc
            /\ email_args' = email_args
            /\ race_result' = race_result]_vars
    /\ (detached /\ chain # "finished") ~> (detached /\ chain = "finished")

\* The spawned query answered after the request had got its result.
C4_Witness ==
    /\ detached
    /\ chain = "finished"
    /\ disc_result # <<>>
    /\ pc = "done"
    /\ result = Ok("email")
    /\ trace[Len(trace)] \in {"discovered", "log_detached"}

\* C5: when discovery answers with no link, or with a first link the OIDC
\* bridge does not serve, the dispatch step yields ProviderCancelled, the
\* OIDC bridge is not invoked, the email-loop bridge is invoked, and its
\* result is the final result.
C5_UnusableLinksFallBack ==
    (InRequest /\ DiscoveredLinks /\ ~FirstLinkUsable) =>
        /\ oidc_args = <<>> /\ oidc_result = <<>>
        /\ email_args = <<email_addr>>
        /\ DiscoveredInTime =>
               /\ race_result = <<Err("ProviderCancelled", <<>>)>>
               /\ FallbackErrors =
                      <<[err |-> Err("ProviderCancelled", <<>>), by |-> "fallback"]>>
               /\ Before("discovered", "email")
        /\ ~DiscoveredInTime =>
               \E i \in DOMAIN log :
                   log[i] = [err |-> Err("ProviderCancelled", <<>>), by |-> "detached"]
        /\ EmailResultIsFinal

\* The first link is not served by the OIDC bridge although the second one
\* is; the email-loop bridge's response is the result.
C5_Witness ==
    /\ DiscoveredLinks /\ DiscoveredInTime
    /\ Len(disc_result[1].links) = 2
    /\ disc_result[1].links[1].rel = "Other"
    /\ disc_result[1].links[2].rel = "OidcIssuer"
    /\ pc = "done"
    /\ result = Ok("email")

\* The discovery query failed with a Provider error before the timer fired.
DiscoveryFailedInTime ==
    /\ InRequest /\ DiscoveredInTime
    /\ disc_result[1].tag = "err"
    /\ disc_result[1].err.kind = "Provider"

\* C6: when the discovery query fails with a Provider error before the timer
\* fires, the OIDC bridge is not invoked, the email-loop bridge is invoked
\* exactly once, and its result, a response or an error, is the final result.
C6_ProviderFailureFallsBack ==
    DiscoveryFailedInTime =>
        /\ oidc_args = <<>> /\ oidc_result = <<>>
        /\ FallbackErrors = <<[err |-> disc_result[1].err, by |-> "fallback"]>>
        /\ email_args = <<email_addr>>
        /\ pc \in {"email", "done"}
        /\ EmailResultIsFinal

\* The email-loop bridge failed with a Provider error in its turn, and that
\* error is the result: it was not retried.
C6_Witness ==
    /\ DiscoveryFailedInTime
    /\ pc = "done"
    /\ result = Err("Provider", <<"email">>)
    /\ Len(email_args) = 1

\* redirect_uri, client_id, response_mode, response_errors and state of the
\* request are all valid.
FiveValid(params) ==
    /\ "redirect_uri" \in DOMAIN params
    /\ "client_id" \in DOMAIN params
    /\ params["redirect_uri"].scheme # ""
    /\ params["client_id"] =
           origin_ascii_serialization(
               parse_redirect_uri(params["redirect_uri"], "redirect_uri").url)
    /\ "response_mode" \in DOMAIN params =>
           params["response_mode"] \in {"fragment", "form_post"}
    /\ "response_errors" \in DOMAIN params =>
           params["response_errors"] \in {"true", "false"}

\* An allow-list is configured and the client_id of the request is, or is
\* not, a member of it.
ListedClient ==
    /\ allowed_origins # <<>>
    /\ "client_id" \in DOMAIN req
    /\ req["client_id"] \in allowed_origins[1]

UnlistedClient ==
    /\ allowed_origins # <<>>
    /\ "client_id" \in DOMAIN req
    /\ req["client_id"] \notin allowed_origins[1]

NotWhitelisted == Err("Input", <<"the origin is not whitelisted">>)

\* C7: with an allow-list configured, a request whose client_id is not a
\* member ends with an Input error and makes no limiter call, starts no
\* session, issues no discovery query and calls no bridge; when it reaches
\* the whitelist check the error is "the origin is not whitelisted" and the
\* return parameters are bound by then.  A client_id that is a member passes
\* the check: the request goes on to the next stage.
C7_WhitelistRejectsBeforeLimiter ==
    /\ (InRequest /\ UnlistedClient) =>
           /\ pc = "done"
           /\ result.tag = "err" /\ result.kind = "Input"
           /\ NoLimiterCall /\ NoSessionStarted /\ NoDiscovery /\ NoBridgeCall
           /\ FiveValid(req) =>
                  /\ result = NotWhitelisted
                  /\ return_params.set
                  /\ return_params.redirect_uri =
                         parse_redirect_uri(req["redirect_uri"], "redirect_uri").url
    /\ (InRequest /\ ListedClient /\ FiveValid(req)) =>
           /\ result # NotWhitelisted
           /\ "nonce" \notin DOMAIN req =>
                  result = Err("Input", <<"missing request parameter", "nonce">>)
           /\ ("nonce" \in DOMAIN req /\ "response_type" \notin DOMAIN req) =>
                  result = Err("Input", <<"missing request parameter", "response_type">>)

\* A request of an origin that is not on the list was refused at the check.
C7_Witness ==
    /\ UnlistedClient
    /\ FiveValid(req)
    /\ "nonce" \in DOMAIN req
    /\ pc = "done"
    /\ result = NotWhitelisted
    /\ return_params.set

RequiredParams == {"redirect_uri", "client_id", "nonce", "response_type"}

MissingRequired == {k \in RequiredParams : k \notin DOMAIN req}

NoCallsMade == NoLimiterCall /\ NoDiscovery /\ NoBridgeCall

\* C8 as stated: a request that lacks a required parameter ends with an
\* Input error naming a missing parameter, and makes no limiter call, no
\* discovery query and no bridge call.
C8_MissingParamAlwaysNamed ==
    (InRequest /\ MissingRequired # {}) =>
        /\ pc = "done"
        /\ \E k \in MissingRequired :
               result = Err("Input", <<"missing request parameter", k>>)
        /\ NoCallsMade

\* C8, amended: a request that lacks a required parameter ends with an Input
\* error and makes no limiter call, no discovery query and no bridge call.
\* The error names the first missing one of redirect_uri, client_id, nonce,
\* response_type, unless redirect_uri and client_id are present and a check
\* that runs before nonce is read (redirect_uri parsing, client_id against
\* the origin, response_mode, response_errors, the whitelist) fails: then it
\* is the Input error of that check.
C8_MissingParamIsInputError ==
    (InRequest /\ MissingRequired # {}) =>
        /\ pc = "done"
        /\ result.tag = "err" /\ result.kind = "Input"
        /\ NoCallsMade
        /\ NoSessionStarted
        /\ IF "redirect_uri" \notin DOMAIN req
           THEN result = Err("Input", <<"missing request parameter", "redirect_uri">>)
           ELSE IF "client_id" \notin DOMAIN req
           THEN result = Err("Input", <<"missing request parameter", "client_id">>)
           ELSE IF ~FiveValid(req)
           THEN /\ result.msg[1] # "missing request parameter"
                /\ ~return_params.set
           ELSE IF UnlistedClient
           THEN result = NotWhitelisted
           ELSE IF "nonce" \notin DOMAIN req
           THEN result = Err("Input", <<"missing request parameter", "nonce">>)
           ELSE result = Err("Input", <<"missing request parameter", "response_type">>)

\* nonce and response_type are both missing from an otherwise valid request,
\* and the error names nonce.
C8_Witness ==
    /\ MissingRequired = {"nonce", "response_type"}
    /\ FiveValid(req)
    /\ pc = "done"
    /\ result = Err("Input", <<"missing request parameter", "nonce">>)

\* The request passed parameter validation and the whitelist check.
PassedValidation ==
    /\ FiveValid(req)
    /\ ~UnlistedClient
    /\ "nonce" \in DOMAIN req
    /\ "response_type" \in DOMAIN req
    /\ req["response_type"] = "id_token"

\* C9: a request that passed parameter validation and the whitelist check
\* and has no login_hint, or an empty one, ends with the login form as a
\* success response; no limiter call is made, no session is started, no
\* discovery query is issued and no bridge is called.
C9_NoLoginHintShowsForm ==
    (InRequest /\ PassedValidation
        /\ ("login_hint" \in DOMAIN req => req["login_hint"] = "")) =>
        /\ pc = "done"
        /\ result = [tag |-> "ok", kind |-> "Response", msg |-> <<"login_hint form">>,
                     params |-> req]
        /\ NoLimiterCall /\ NoSessionStarted /\ NoDiscovery /\ NoBridgeCall

\* A request with an empty login_hint was answered with the form.
C9_Witness ==
    /\ PassedValidation
    /\ "login_hint" \in DOMAIN req
    /\ req["login_hint"] = ""
    /\ pc = "done"
    /\ result.tag = "ok"
    /\ result.msg = <<"login_hint form">>

\* C10: when the handler returns an error, the return parameters are unset
\* if and only if the failure came before redirect_uri, client_id,
\* response_mode, response_errors and state were all validated; an error of
\* any later stage is returned with the slot bound to the validated
\* redirect_uri.
C10_ReturnParamsBoundIffValidated ==
    (pc = "done" /\ result.tag = "err") =>
        /\ return_params.set <=> FiveValid(req)
        /\ return_params.set =>
               return_params.redirect_uri =
                   parse_redirect_uri(req["redirect_uri"], "redirect_uri").url

\* An error of the OIDC bridge was returned with the return parameters bound.
C10_Witness ==
    /\ pc = "done"
    /\ result = Err("Input", <<"oidc">>)
    /\ return_params.set
    /\ return_params.redirect_uri.host = "rp.example"

(***************************************************************************)
(* The client_id check over schemes, hosts and ports.                      *)
(***************************************************************************)
Schemes == {"https", "http"}
Hosts == {"rp.example", "other.example"}
Ports == {"", "80", "443", "8443"}

\* Requests with an absolute redirect_uri and a client_id over the schemes,
\* hosts and ports; every other parameter is valid and no login_hint is sent.
OriginRequests ==
    {[redirect_uri |-> RawUrl(s, h, p, "/cb"), client_id |-> RawOrigin(cs, ch, cp),
      nonce |-> "n1", response_type |-> "id_token"] :
        s \in Schemes, h \in Hosts, p \in Ports,
        cs \in Schemes, ch \in Hosts, cp \in Ports}

\* The router hands one of these requests to `auth`.
RequestOrigin ==
    /\ pc = "idle"
    /\ \E params \in OriginRequests : Auth(params, NoResult, TRUE)

NextOrigin ==
    \/ RequestOrigin
    \/ Finish

SpecOrigin == Init /\ [][NextOrigin]_vars

MustBeOrigin == Err("Input", <<"the client_id must be the origin of the redirect_uri">>)

\* client_id is, part by part, the origin of the absolute URL `uri`: the
\* same scheme, the same host, and the port of the URL unless that port is
\* the default of the scheme, which an origin is written without.
WrittenAsOriginOf(client_id, uri) ==
    /\ client_id.scheme = uri.scheme
    /\ client_id.host = uri.host
    /\ client_id.port =
           (IF (uri.scheme = "https" /\ uri.port = "443")
                   \/ (uri.scheme = "http" /\ uri.port = "80")
            THEN "" ELSE uri.port)

\* C11: for a request with an absolute redirect_uri and a client_id, the
\* client_id check accepts exactly when client_id equals the serialized
\* origin (scheme, host, port) of redirect_uri; any other client_id ends the
\* request with the Input error "the client_id must be the origin of the
\* redirect_uri", the return parameters unset and nothing else done.
C11_ClientIdMustBeOrigin ==
    (pc = "done" /\ "redirect_uri" \in DOMAIN req /\ "client_id" \in DOMAIN req
        /\ req["redirect_uri"].scheme # "") =>
        IF WrittenAsOriginOf(req["client_id"], req["redirect_uri"])
        THEN /\ result # MustBeOrigin
             /\ (/\ "response_mode" \notin DOMAIN req
                 /\ "response_errors" \notin DOMAIN req) => return_params.set
        ELSE /\ result = MustBeOrigin
             /\ return_params = None
             /\ trace = <<>>
             /\ NoLimiterCall /\ NoSessionStarted /\ NoDiscovery /\ NoBridgeCall

\* A redirect_uri written with the default port of its scheme was accepted
\* for the client_id written without a port.
C11_Witness ==
    /\ pc = "done"
    /\ "redirect_uri" \in DOMAIN req /\ "client_id" \in DOMAIN req
    /\ req["redirect_uri"] = RawUrl("https", "rp.example", "443", "/cb")
    /\ req["client_id"] = RawOrigin("https", "rp.example", "")
    /\ "response_mode" \notin DOMAIN req /\ "response_errors" \notin DOMAIN req
    /\ return_params.set
    /\ result # MustBeOrigin

\* C12: within one request the return parameters are set at most once, by
\* the synchronous body of `auth`, and once set none of the four fields is
\* changed by any later step (the race, the spawned task, the fallback, the
\* bridges' answers); the slot goes away only with the request context.
C12_ReturnParamsSetOnce ==
    /\ [](Count("bind") <= 1 /\ (return_params.set <=> Count("bind") = 1))
    /\ [][/\ (return_params.set /\ return_params' # return_params) =>
                 (pc = "done" /\ pc' = "idle" /\ return_params' = None)
          /\ (~return_params.set /\ return_params'.set) =>
                 (pc = "idle" /\ Len(trace') >= 1 /\ trace'[1] = "bind")]_vars

\* The timer fired, the spawned task went on to the OIDC bridge and finished,
\* the email bridge answered, and the return parameters are still those of
\* the request.
C12_Witness ==
    /\ pc = "done"
    /\ detached /\ chain = "finished"
    /\ oidc_result # <<>>
    /\ email_result # <<>>
    /\ return_params.set
    /\ return_params.redirect_uri =
           parse_redirect_uri(req["redirect_uri"], "redirect_uri").url
    /\ return_params.state = "s1"

\* The events of the trace that belong to a stage of the request.
StageEvents ==
    {"bind", "whitelist", "nonce", "response_type", "login_hint", "parse_email",
     "limiter", "session", "discovery", "discovered", "oidc", "log", "email",
     "propagate"}

\* The stages in the order of the code: binding, whitelist, validation of
\* nonce and response_type, login hint, email parsing and rate limiting,
\* session, discovery, dispatch, fallback.
CodeStage(ev) ==
    CASE ev = "bind" -> 1
      [] ev = "whitelist" -> 2
      [] ev \in {"nonce", "response_type"} -> 3
      [] ev = "login_hint" -> 4
      [] ev \in {"parse_email", "limiter"} -> 5
      [] ev = "session" -> 6
      [] ev \in {"discovery", "discovered"} -> 7
      [] ev = "oidc" -> 8
      [] OTHER -> 9

\* The stages in the order that places all parameter validation first.
ValidationFirstStage(ev) ==
    CASE ev \in {"nonce", "response_type"} -> 1
      [] ev = "bind" -> 2
      [] ev = "whitelist" -> 3
      [] ev = "login_hint" -> 4
      [] ev \in {"parse_email", "limiter"} -> 5
      [] ev = "session" -> 6
      [] ev \in {"discovery", "discovered"} -> 7
      [] ev = "oidc" -> 8
      [] OTHER -> 9

\* Event i of the trace was performed by the spawned task.
BySpawnedTask(i) ==
    /\ trace[i] \in {"discovered", "oidc", "log_detached"}
    /\ \E k \in DOMAIN trace : k < i /\ trace[k] = "spawn"

\* The trace without the events the spawned task performed.
OwnTrace ==
    IF \E k \in DOMAIN trace : trace[k] = "spawn"
    THEN LET k == CHOOSE k \in DOMAIN trace : trace[k] = "spawn"
         IN  SubSeq(trace, 1, k)
             \o SelectSeq(SubSeq(trace, k + 1, Len(trace)),
                          LAMBDA ev : ev \notin {"discovered", "oidc", "log_detached"})
    ELSE trace

\* The stage events of sequence tr follow the order Stage.
InStageOrder(Stage(_), tr) ==
    LET evs == SelectSeq(tr, LAMBDA ev : ev \in StageEvents)
    IN  \A i \in 1..(Len(evs) - 1) : Stage(evs[i]) <= Stage(evs[i + 1])

\* The future f is still at work while the fallback's bridge call is pending.
FallbackOverlapsChain == pc = "email" /\ chain \in {"discovery", "oidc"}

\* C13 as stated: the stages run in the order parameter validation
\* (including nonce and response_type), binding, whitelist, login hint,
\* email parsing and rate limiting, session, discovery, dispatch, fallback,
\* and no two of them are in progress at the same time.
C13_ValidationFirstNoOverlap ==
    /\ InStageOrder(ValidationFirstStage, trace)
    /\ ~FallbackOverlapsChain

\* C13: the stages run in the order binding (after redirect_uri, client_id,
\* response_mode, response_errors and state were validated), whitelist,
\* validation of nonce and response_type, login hint, email parsing and rate
\* limiting, session, discovery, dispatch, fallback.  While the timer has not
\* fired no stage starts before the previous one finished; once it fired,
\* the fallback runs while the spawned task may still be at discovery or
\* dispatch, and the steps of the request itself keep the order.
C13_StagesInCodeOrder ==
    /\ InStageOrder(CodeStage, OwnTrace)
    /\ ~detached => InStageOrder(CodeStage, trace)
    /\ ~detached => ~FallbackOverlapsChain
    /\ (pc = "done" /\ result = MissingParam("nonce")) =>
           (return_params.set /\ ~UnlistedClient)
    /\ (pc = "done" /\ result = NotWhitelisted) => Count("nonce") = 0

\* A request without nonce was rejected after binding and whitelist check;
\* this is the order of the code.
C13_Witness ==
    /\ pc = "done"
    /\ ListedClient
    /\ result = MissingParam("nonce")
    /\ trace = <<"bind", "whitelist", "nonce">>

\* The OIDC bridge was invoked by the spawned task, after the timer fired.
OidcInvokedAfterTimeout ==
    \E i \in DOMAIN trace : trace[i] = "oidc" /\ BySpawnedTask(i)

\* Both bridges have a call pending on the session of the request.
BothBridgesPending == pc = "email" /\ chain = "oidc"

\* C14: when the timer fires first, the work that is detached is discovery
\* only: the OIDC bridge is not invoked after the timeout and is not part of
\* the spawned task, so the OIDC bridge and the email-loop bridge never both
\* have a call pending on the session of the same attempt.
C14_SpawnedTaskIsDiscoveryOnly ==
    /\ ~OidcInvokedAfterTimeout
    /\ ~(detached /\ chain = "oidc")
    /\ ~BothBridgesPending

\* The race step yielded an error: that error reaches the fallback step.
ReachedFallback == race_result # <<>> /\ race_result[1].tag = "err"

\* How many times error e was logged.
TimesLogged(e) == Cardinality({i \in DOMAIN log : log[i].err = e})

\* C15: every error that reaches the fallback step is logged exactly once,
\* and before the email-loop bridge is invoked or the error is propagated;
\* when no error reaches the fallback step, the step logs nothing.
C15_FallbackErrorLoggedOnce ==
    /\ Len(FallbackErrors) <= 1
    /\ Count("log") = Len(FallbackErrors)
    /\ ReachedFallback =>
           LET e == race_result[1]
           IN  /\ FallbackErrors = <<[err |-> e, by |-> "fallback"]>>
               /\ TimesLogged(e) = 1
               /\ IF e.kind \in {"Provider", "ProviderCancelled"}
                  THEN /\ Count("email") = 1 /\ Count("propagate") = 0
                       /\ Before("log", "email")
                       /\ email_args = <<email_addr>>
                  ELSE /\ Count("propagate") = 1 /\ Count("email") = 0
                       /\ Before("log", "propagate")
                       /\ pc = "done" /\ result = e
    /\ ~ReachedFallback =>
           /\ FallbackErrors = <<>>
           /\ Count("email") = 0 /\ Count("propagate") = 0

\* The timeout error was logged once by the fallback step; the spawned task
\* failed later and logged its own error.
C15_Witness ==
    /\ pc = "done"
    /\ ReachedFallback
    /\ race_result[1] = TimedOut(email_addr)
    /\ TimesLogged(TimedOut(email_addr)) = 1
    /\ Len(log) = 2
    /\ log[2].by = "detached"

\* C16: the dispatch step looks at the first entry of the link sequence
\* only.  The OIDC bridge is invoked at most once per attempt, and then with
\* the first link; when the first link is not one the bridge serves, or the
\* bridge fails, no later link is tried: the error goes on as it is (to the
\* fallback step, or to the log when the task was spawned).
C16_OnlyFirstLinkTried ==
    /\ Len(oidc_args) <= 1
    /\ Count("oidc") = Len(oidc_args)
    /\ oidc_args # <<>> =>
           /\ FirstLinkUsable
           /\ oidc_args[1] = disc_result[1].links[1]
    /\ (DiscoveredLinks /\ ~FirstLinkUsable) =>
           /\ oidc_args = <<>> /\ oidc_result = <<>>
           /\ chain = "finished"
           /\ ~detached => race_result = <<Err("ProviderCancelled", <<>>)>>
    /\ (oidc_result # <<>> /\ oidc_result[1].tag = "err") =>
           /\ Len(oidc_args) = 1
           /\ chain = "finished"
           /\ ~detached => race_result = oidc_result

\* Discovery answered with two links the bridge serves; the bridge failed on
\* the first and the request fell back to the email loop, the second link
\* untried.
C16_Witness ==
    /\ ~detached
    /\ DiscoveredLinks
    /\ Len(disc_result[1].links) = 2
    /\ disc_result[1].links[1].rel = "OidcIssuer"
    /\ disc_result[1].links[2].rel = "Google"
    /\ oidc_args = <<disc_result[1].links[1]>>
    /\ oidc_result = <<Err("Provider", <<"oidc">>)>>
    /\ email_args = <<email_addr>>

\* The session ctx.start_session makes of the request.
SessionOfRequest ==
    [started |-> TRUE, client_id |-> req["client_id"], login_hint |-> req["login_hint"],
     email |-> email_addr, nonce |-> req["nonce"]]

\* C17: a session is started at most once per request, only after the
\* limiter allowed the attempt and before the discovery query is issued; a
\* request that ends at validation, the whitelist check, the login form, an
\* invalid email or the limiter starts no session.
C17_SessionOnlyAfterLimiter ==
    /\ Count("session") <= 1
    /\ session.started <=> Count("session") = 1
    /\ session.started =>
           /\ limiter_answer # <<>>
           /\ limiter_answer[1].ok /\ limiter_answer[1].allowed
           /\ Count("limiter") = 1 /\ Count("discovery") = 1
           /\ Before("limiter", "session")
           /\ Before("session", "discovery")
           /\ session = SessionOfRequest
    /\ (InRequest /\ (limiter_answer = <<>> \/ ~limiter_answer[1].ok
                        \/ ~limiter_answer[1].allowed)) =>
           /\ pc = "done"
           /\ NoSessionStarted /\ NoDiscovery /\ NoBridgeCall

\* The limiter allowed the attempt and the session was started, once, before
\* the discovery query that is now pending.
C17_Witness ==
    /\ pc = "race"
    /\ chain = "discovery"
    /\ limiter_answer # <<>> /\ limiter_answer[1].allowed
    /\ session = SessionOfRequest
    /\ Count("session") = 1

\* The limiter answered with an error of its store.
LimiterFailed == limiter_answer # <<>> /\ ~limiter_answer[1].ok

\* C18: when the limiter answers with a store-level error, exactly that
\* error is the final result of the request, whatever its kind; no session
\* is started, no discovery query is issued, the fallback step does not run
\* and no bridge is called.
C18_LimiterErrorIsFinal ==
    LimiterFailed =>
        /\ pc = "done"
        /\ result.tag = "err"
        /\ result \in SourceErrs("store")
        /\ result = limiter_answer[1].err
        /\ NoSessionStarted /\ NoDiscovery /\ NoBridgeCall
        /\ race_result = <<>> /\ log = <<>>
        /\ Count("log") = 0 /\ Count("email") = 0

\* The store failed with an error of kind Provider: it is the result, and
\* the email loop was not tried.
C18_Witness ==
    /\ LimiterFailed
    /\ pc = "done"
    /\ result = Err("Provider", <<"store">>)
    /\ email_args = <<>>
    /\ ~session.started

\* C19: every request that reaches the discovery race comes to a final
\* result, even when the discovery query and the OIDC bridge call chained to
\* it never complete, provided the timer fires and the email bridge answers;
\* the only other way out of the race is the timer failing (the handler
\* panics).
C19_RaceAlwaysEnds ==
    (pc = "race") ~> ((pc = "done" /\ result # NoResult) \/ pc = "panic")

\* The request was answered by the email loop while the discovery query of
\* the spawned task is still pending.
C19_Witness ==
    /\ pc = "done"
    /\ detached
    /\ chain = "discovery"
    /\ disc_result = <<>>
    /\ email_result # <<>>
    /\ result = email_result[1]

====
